---- MODULE Spec2Model ----
(***************************************************************************)
(* A model of telegram_bot.py: the catalog (ITEMS, CATEGORIES), the        *)
(* per-user context.user_data bag, the conversation state each handler     *)
(* returns, the two persisted files, and the payment-intent handlers.      *)
(*                                                                         *)
(* Conventions.                                                            *)
(*  - A Python dict is a function whose DOMAIN is the set of its keys; a   *)
(*    Python list is a sequence.  The key order of a dict is not modelled  *)
(*    (it only orders the buttons of a menu).                              *)
(*  - user_data.get(k) of a missing key is None; every use in the source   *)
(*    is either a truth test or follows one, so "k missing" and "k -> None"*)
(*    are the same dict here: a key is in the DOMAIN iff it holds a value. *)
(*  - callback_data is modelled by its data.split(":") token sequence      *)
(*    (no key the program creates contains a colon: str.isalnum).          *)
(*  - Every handler is one action.  It sets `out` to what the handler      *)
(*    replied and whether it raised, and state[u] to the conversation      *)
(*    state it returned (unchanged when it raised or returned None).       *)
(*  - os.path.exists, the gateway and the document upload are external:    *)
(*    their outcome is chosen nondeterministically at each call.           *)
(*  - The disk is external too: `writable` is the set of files that        *)
(*    open(path, "w") can open; it changes only by the steps DiskFails and *)
(*    DiskRecovers of the environment.                                     *)
(*  - The two handlers that write both files are also given statement by   *)
(*    statement, as tasks of the event loop: pc[u] is the statement the    *)
(*    task of user u is at, and `current` the task that holds the thread   *)
(*    (None at an await).  A handler taken as one action runs while no     *)
(*    task holds the thread and leaves pc and current unchanged.           *)
(***************************************************************************)
EXTENDS Integers, Sequences, FiniteSets, TLC

VARIABLES ITEMS, CATEGORIES, user_data, state, items_file, categories_file, out, writable,
          pc, current

vars ==
    <<ITEMS, CATEGORIES, user_data, state, items_file, categories_file, out, writable, pc,
      current>>

(* ---------------------------------------------------------------------- *)
(* Bounds of the model                                                    *)
(* ---------------------------------------------------------------------- *)

\* No category list grows beyond this length (the item-add commit appends
\* without limit in the source).
MaxListLen == 2

(* ---------------------------------------------------------------------- *)
(* Configuration and state names (lines 38-66)                            *)
(* ---------------------------------------------------------------------- *)

ADMIN_USER_ID == "7260656020"

ITEMS_FILE == "items.json"

CATEGORIES_FILE == "categories.json"

Files == {ITEMS_FILE, CATEGORIES_FILE}

OtherUser == "1000"

Users == {ADMIN_USER_ID, OtherUser}

ADMIN_MENU == "ADMIN_MENU"
CATEGORY_MENU == "CATEGORY_MENU"
CATEGORY_ADD == "CATEGORY_ADD"
CATEGORY_EDIT_KEY == "CATEGORY_EDIT_KEY"
CATEGORY_DELETE_CONFIRM == "CATEGORY_DELETE_CONFIRM"
ITEM_MENU == "ITEM_MENU"
ITEM_ADD_KEY == "ITEM_ADD_KEY"
ITEM_ADD_NAME == "ITEM_ADD_NAME"
ITEM_ADD_PRICE == "ITEM_ADD_PRICE"
ITEM_ADD_PATH == "ITEM_ADD_PATH"
ITEM_ADD_CATEGORY == "ITEM_ADD_CATEGORY"
ITEM_EDIT_SELECT == "ITEM_EDIT_SELECT"
ITEM_EDIT_FIELD_SELECT == "ITEM_EDIT_FIELD_SELECT"
ITEM_EDIT_FIELD_VALUE == "ITEM_EDIT_FIELD_VALUE"
ITEM_DELETE_CONFIRM == "ITEM_DELETE_CONFIRM"

\* No conversation is open for the user (ConversationHandler holds no state).
NoConversation == "NoConversation"

\* The Message object that the /cancel fallback returns as the "new state".
MessageObject == "MessageObject"

\* Python's None, where it is stored in a list or returned.
None == "None"

(* ---------------------------------------------------------------------- *)
(* Python helpers                                                         *)
(* ---------------------------------------------------------------------- *)

\* dict[k] = v
DictSet(d, k, v) == [x \in (DOMAIN d) \cup {k} |-> IF x = k THEN v ELSE d[x]]

\* dict.pop(k, None) / del dict[k]
DictPop(d, k) == [x \in (DOMAIN d) \ {k} |-> d[x]]

\* dict.get(k), for a user_data bag
Get(d, k) == IF k \in DOMAIN d THEN d[k] ELSE None

\* x in list
InList(x, s) == \E i \in 1..Len(s) : s[i] = x

FirstIndex(x, s) == CHOOSE i \in 1..Len(s) : s[i] = x /\ \A j \in 1..(i - 1) : s[j] # x

\* list.remove(x): deletes the FIRST occurrence of x only
ListRemove(s, x) ==
    IF InList(x, s)
    THEN LET i == FirstIndex(x, s) IN SubSeq(s, 1, i - 1) \o SubSeq(s, i + 1, Len(s))
    ELSE s

\* number of occurrences of x in a list
Count(x, s) == Cardinality({i \in 1..Len(s) : s[i] = x})

\* CATEGORIES.setdefault(cat, []).append(key)
SetDefaultAppend(cats, cat, key) ==
    DictSet(cats, cat, (IF cat \in DOMAIN cats THEN cats[cat] ELSE <<>>) \o <<key>>)

\* for items in CATEGORIES.values(): if key in items: items.remove(key)
RemoveFromEvery(cats, key) == [c \in DOMAIN cats |-> ListRemove(cats[c], key)]

(* ---------------------------------------------------------------------- *)
(* Text inputs.  A text message is one of a small set of strings; the     *)
(* string functions are given by their values on that set.                *)
(* ---------------------------------------------------------------------- *)

\* Texts sent as a category key: an existing key, a new key, the new key
\* with capitals and surrounding blanks, and a key with a blank inside.
CatKeyTexts == {"c1", "c2", " C2 ", "c 2"}

\* Texts sent as an item key, likewise.
ItemKeyTexts == {"k1", "k2", " K2 ", "k 2"}

\* Texts sent as an item name.
NameTexts == {"Guide", "Manual"}

\* Texts sent as a price: 2e-8 and 1.00002e-8 BTC, zero, a negative amount,
\* a text that is no number, and a text that float() parses to not-a-number.
PriceTexts == {"0.00000002", "0.0000000100002", "0", "-0.00000001", "free", "nan"}

\* Texts sent as a file path: another file than the default item's, with a
\* leading blank.
PathTexts == {" items/b.pdf"}

\* str.strip().lower()
StripLower(t) ==
    CASE t = " C2 " -> "c2"
      [] t = " K2 " -> "k2"
      [] OTHER -> t

\* str.strip()
Strip(t) ==
    CASE t = " C2 " -> "C2"
      [] t = " K2 " -> "K2"
      [] t = " items/b.pdf" -> "items/b.pdf"
      [] OTHER -> t

\* str.isalnum(): non-empty, letters and digits only
IsAlnum(t) == t \in {"c1", "c2", "C2", "k1", "k2", "K2", "Guide", "Manual", "0", "free", "nan"}

\* Amounts are whole numbers of 1e-13 BTC, so that the 1e-12 tolerance of
\* cmd_confirm (10 units) and one satoshi (100000 units) are both exact.
IsFloat(t) == t \in {"0.00000002", "0.0000000100002", "0", "-0.00000001", "nan"}

\* The float not-a-number, which float("nan") returns.  A float is an
\* integer amount or NaN; NaN is written as a number that no amount takes.
NaN == 0 - 1

\* float(text), for a text float() accepts
ParseFloat(t) ==
    CASE t = "0.00000002" -> 200000
      [] t = "0.0000000100002" -> 100002
      [] t = "0" -> 0
      [] t = "-0.00000001" -> 0 - 100000
      [] t = "nan" -> NaN

\* Float comparison and subtraction: every comparison with NaN is False,
\* every difference with NaN is NaN.
FloatLe(a, b) == a # NaN /\ b # NaN /\ a <= b

FloatGe(a, b) == a # NaN /\ b # NaN /\ a >= b

FloatSub(a, b) == IF a = NaN \/ b = NaN THEN NaN ELSE a - b

(* ---------------------------------------------------------------------- *)
(* Callback data, as the token sequence data.split(":")                   *)
(* ---------------------------------------------------------------------- *)

\* Category keys a button can carry: the default one, the one the dialogue
\* can create, and one that never existed.
CatTokens == {"c1", "c2"}

\* Item keys a button can carry.
ItemTokens == {"k1", "k2"}

\* The field buttons of admin_item_edit_start (lines 522-527).
FieldTokens == {"name", "price_btc", "file_path", "category"}

AdminCallbackData ==
    {<<"admin", "cat", "add">>, <<"admin", "cat", "confirm_del">>, <<"admin", "cat", "back">>,
     <<"admin", "item", "add">>, <<"admin", "item", "confirm_del">>,
     <<"admin", "categories">>, <<"admin", "open">>, <<"admin", "items">>}
    \cup {<<"admin", "cat", a, c>> : a \in {"edit", "del"}, c \in CatTokens}
    \cup {<<"admin", "item", a, k>> : a \in {"edit", "del"}, k \in ItemTokens}
    \cup {<<"admin", "item", "field", f>> : f \in FieldTokens}
    \cup {<<"admin", "item", "move", c>> : c \in CatTokens}
    \cup {<<"admin", "assign_cat", c>> : c \in CatTokens}

\* data.startswith(prefix + ":") for a prefix of whole tokens
StartsWith(data, prefix) ==
    /\ Len(data) > Len(prefix)
    /\ SubSeq(data, 1, Len(prefix)) = prefix

(* ---------------------------------------------------------------------- *)
(* Default data and the state after start-up (lines 80-106, 718-721)      *)
(* ---------------------------------------------------------------------- *)

\* The example catalog, cut down to one item in one category.
DEFAULT_ITEMS ==
    [k \in {"k1"} |-> [name |-> "Guide", price_btc |-> 200000, file_path |-> "items/a.pdf"]]

DEFAULT_CATEGORIES == [c \in {"c1"} |-> <<"k1">>]

\* An empty dict
EmptyDict == [x \in {} |-> None]

\* What a handler replied: the kind of its outcome message, and whether it
\* ended by raising an exception instead of returning.
Out(msg, raised) == [msg |-> msg, raised |-> raised]

\* No handler of the user is running.
TaskIdle == "idle"

\* The position of a task: the statement it is at, and the category its
\* callback data carries (None for a handler that reads none).
At(pos, cat) == [at |-> pos, cat |-> cat]

Init ==
    /\ ITEMS = DEFAULT_ITEMS
    /\ CATEGORIES = DEFAULT_CATEGORIES
    /\ user_data = [u \in Users |-> EmptyDict]
    /\ state = [u \in Users |-> NoConversation]
    /\ items_file = DEFAULT_ITEMS
    /\ categories_file = DEFAULT_CATEGORIES
    /\ out = Out("start", FALSE)
    /\ writable = Files
    /\ pc = [u \in Users |-> At(TaskIdle, None)]
    /\ current = None

(* ---------------------------------------------------------------------- *)
(* How a handler ends                                                     *)
(* ---------------------------------------------------------------------- *)

\* The handler returned conversation state st after replying msg.  (No
\* handler changes what the disk accepts.)
Return(u, msg, st) ==
    /\ out' = Out(msg, FALSE)
    /\ state' = [state EXCEPT ![u] = st]
    /\ UNCHANGED <<writable, pc, current>>

\* The handler raised after replying msg: no state is returned.
Raise(u, msg) ==
    /\ out' = Out(msg, TRUE)
    /\ UNCHANGED <<state, writable, pc, current>>

\* user_data[key] = value for user u
SetUserData(u, key, value) ==
    user_data' = [user_data EXCEPT ![u] = DictSet(user_data[u], key, value)]

\* admin_show_categories / admin_show_items end a handler: they read
\* update.callback_query and call query.answer().  Under a callback update
\* they render the menu and return `menu`; under a text-message update
\* callback_query is None (and the stand-in object Q of admin_cat_add_receive
\* has no such attribute), so the call raises AttributeError.
ShowMenu(u, msg, menu, is_callback) ==
    IF is_callback THEN Return(u, msg, menu) ELSE Raise(u, msg)

admin_show_categories(u, msg, is_callback) == ShowMenu(u, msg, CATEGORY_MENU, is_callback)

admin_show_items(u, msg, is_callback) == ShowMenu(u, msg, ITEM_MENU, is_callback)

\* open(path, "w") of save_json succeeds; when it raises OSError nothing is
\* written.
CanWrite(path) == path \in writable

\* save_json(CATEGORIES_FILE, CATEGORIES) after the in-memory change, as the
\* only write of a handler
SaveCategories ==
    categories_file' = IF CanWrite(CATEGORIES_FILE) THEN CATEGORIES' ELSE categories_file

\* save_json(ITEMS_FILE, ITEMS) left out of a handler.
SaveItems_Skipped == UNCHANGED items_file

\* save_json(ITEMS_FILE, ITEMS) after the in-memory change
SaveItems == items_file' = IF CanWrite(ITEMS_FILE) THEN ITEMS' ELSE items_file

\* save_json(ITEMS_FILE, ITEMS) ; save_json(CATEGORIES_FILE, CATEGORIES): the
\* second write is not reached when the first one raised
SaveItemsThenCategories ==
    /\ SaveItems
    /\ categories_file' = IF CanWrite(ITEMS_FILE) /\ CanWrite(CATEGORIES_FILE)
                          THEN CATEGORIES' ELSE categories_file

\* What follows the writes to `paths` in a handler: `rest` when every write
\* succeeded; otherwise save_json raised and the handler ends there.
AfterSave(u, paths, rest) == IF paths \subseteq writable THEN rest ELSE Raise(u, "OSError")

(* ---------------------------------------------------------------------- *)
(* Admin: categories (lines 319-423)                                      *)
(* ---------------------------------------------------------------------- *)

CatalogUnchanged == UNCHANGED <<ITEMS, CATEGORIES, items_file, categories_file>>

admin_panel_start(u) ==
    /\ Return(u, "Admin Panel", ADMIN_MENU)
    /\ CatalogUnchanged
    /\ UNCHANGED user_data

admin_cat_add_start(u) ==
    /\ Return(u, "Send new category key", CATEGORY_ADD)
    /\ CatalogUnchanged
    /\ UNCHANGED user_data

admin_cat_add_receive(u, raw) ==
    LET text == StripLower(raw) IN
    /\ UNCHANGED <<ITEMS, items_file, user_data>>
    /\ IF ~IsAlnum(text)
       THEN /\ Return(u, "Invalid key", CATEGORY_ADD)
            /\ UNCHANGED <<CATEGORIES, categories_file>>
       ELSE IF text \in DOMAIN CATEGORIES
       THEN /\ Return(u, "Category already exists", CATEGORY_ADD)
            /\ UNCHANGED <<CATEGORIES, categories_file>>
       ELSE /\ CATEGORIES' = DictSet(CATEGORIES, text, <<>>)
            /\ SaveCategories
            \* line 359 passes the stand-in object q, which has no
            \* callback_query attribute
            /\ AfterSave(u, {CATEGORIES_FILE},
                         admin_show_categories(u, "Category created", FALSE))

admin_cat_edit_start(u, data) ==
    /\ CatalogUnchanged
    /\ IF Len(data) < 4
       THEN /\ Return(u, "Malformed callback", CATEGORY_MENU)
            /\ UNCHANGED user_data
       ELSE LET key == data[4] IN
            IF key \notin DOMAIN CATEGORIES
            THEN /\ Return(u, "Category not found", CATEGORY_MENU)
                 /\ UNCHANGED user_data
            ELSE /\ SetUserData(u, "admin_edit_category_key", key)
                 /\ Return(u, "Send new key to rename", CATEGORY_EDIT_KEY)

RenameKey_Copy(cats, old_key, new_key) == DictSet(cats, new_key, cats[old_key])

\* CATEGORIES[new_key] = CATEGORIES.pop(old_key)
RenameKey(cats, old_key, new_key) == DictSet(DictPop(cats, old_key), new_key, cats[old_key])

admin_cat_edit_receive(u, raw) ==
    LET new_key == StripLower(raw)
        old_key == Get(user_data[u], "admin_edit_category_key")
    IN
    /\ UNCHANGED <<ITEMS, items_file, user_data>>
    /\ IF old_key = None \/ old_key \notin DOMAIN CATEGORIES
       THEN /\ admin_show_categories(u, "No category selected or it no longer exists", FALSE)
            /\ UNCHANGED <<CATEGORIES, categories_file>>
       ELSE IF ~IsAlnum(new_key)
       THEN /\ Return(u, "Invalid key format", CATEGORY_EDIT_KEY)
            /\ UNCHANGED <<CATEGORIES, categories_file>>
       ELSE IF new_key \in DOMAIN CATEGORIES
       THEN /\ Return(u, "That key already exists", CATEGORY_EDIT_KEY)
            /\ UNCHANGED <<CATEGORIES, categories_file>>
       ELSE /\ CATEGORIES' = RenameKey(CATEGORIES, old_key, new_key)
            /\ SaveCategories
            /\ AfterSave(u, {CATEGORIES_FILE},
                         admin_show_categories(u, "Category renamed", FALSE))

admin_cat_delete_confirm(u, data) ==
    LET key == IF Len(data) >= 4 THEN data[4] ELSE None IN
    /\ CatalogUnchanged
    /\ IF key = None \/ key = "" \/ key \notin DOMAIN CATEGORIES
       THEN /\ admin_show_categories(u, "Category not found", TRUE)
            /\ UNCHANGED user_data
       ELSE /\ SetUserData(u, "admin_delete_category_key", key)
            /\ Return(u, "Confirm delete category", CATEGORY_DELETE_CONFIRM)

PopCategory_Clear(cats, key) == [c \in {} |-> <<>>]

\* CATEGORIES.pop(key, None)
PopCategory(cats, key) == DictPop(cats, key)

admin_cat_delete_execute(u) ==
    LET key == Get(user_data[u], "admin_delete_category_key") IN
    /\ UNCHANGED <<ITEMS, items_file, user_data>>
    /\ IF key = None
       THEN /\ admin_show_categories(u, "No category selected", TRUE)
            /\ UNCHANGED <<CATEGORIES, categories_file>>
       ELSE /\ CATEGORIES' = PopCategory(CATEGORIES, key)
            /\ SaveCategories
            /\ AfterSave(u, {CATEGORIES_FILE},
                         admin_show_categories(u, "Category deleted", TRUE))

\* admin_show_categories reached directly from a menu button
show_categories(u) ==
    /\ admin_show_categories(u, "Manage Categories", TRUE)
    /\ CatalogUnchanged
    /\ UNCHANGED user_data

(* ---------------------------------------------------------------------- *)
(* Admin: items (lines 426-624)                                           *)
(* ---------------------------------------------------------------------- *)

\* admin_show_items reached directly from a menu button
show_items(u) ==
    /\ admin_show_items(u, "Manage Items", TRUE)
    /\ CatalogUnchanged
    /\ UNCHANGED user_data

admin_item_add_start(u) ==
    /\ Return(u, "Send new item key", ITEM_ADD_KEY)
    /\ CatalogUnchanged
    /\ UNCHANGED user_data

admin_item_add_key_received(u, raw) ==
    LET key == StripLower(raw) IN
    /\ CatalogUnchanged
    /\ IF ~IsAlnum(key)
       THEN /\ Return(u, "Invalid key", ITEM_ADD_KEY)
            /\ UNCHANGED user_data
       ELSE IF key \in DOMAIN ITEMS
       THEN /\ Return(u, "Key exists", ITEM_ADD_KEY)
            /\ UNCHANGED user_data
       ELSE /\ SetUserData(u, "new_item_key", key)
            /\ Return(u, "Send item display name", ITEM_ADD_NAME)

admin_item_add_name_received(u, raw) ==
    /\ CatalogUnchanged
    /\ SetUserData(u, "new_item_name", Strip(raw))
    /\ Return(u, "Send price in BTC", ITEM_ADD_PRICE)

\* float(text) succeeded and the price is accepted (not price <= 0)
PriceAccepted(text) == IsFloat(text) /\ ~FloatLe(ParseFloat(text), 0)

admin_item_add_price_received(u, raw) ==
    LET text == Strip(raw) IN
    /\ CatalogUnchanged
    /\ IF ~PriceAccepted(text)
       THEN /\ Return(u, "Invalid price", ITEM_ADD_PRICE)
            /\ UNCHANGED user_data
       ELSE /\ SetUserData(u, "new_item_price", ParseFloat(text))
            /\ Return(u, "Send file path", ITEM_ADD_PATH)

admin_item_add_path_received(u, raw, exists) ==
    LET path == Strip(raw) IN
    /\ CatalogUnchanged
    /\ IF ~exists
       THEN /\ Return(u, "File does not exist", ITEM_ADD_PATH)
            /\ UNCHANGED user_data
       ELSE /\ SetUserData(u, "new_item_path", path)
            /\ Return(u, "Choose a category for this item", ITEM_ADD_CATEGORY)

\* The list of category cat can take one more key within the model's bound.
Room(cats, cat) == IF cat \in DOMAIN cats THEN Len(cats[cat]) < MaxListLen ELSE TRUE

\* all([key, name, price, path]): every buffer is set (no handler stores an
\* empty string or a zero price in them)
NewItemComplete(ud) ==
    {"new_item_key", "new_item_name", "new_item_price", "new_item_path"} \subseteq DOMAIN ud

NewItemRecord_NoPath(ud) ==
    [name |-> ud["new_item_name"], price_btc |-> ud["new_item_price"]]

\* {"name": name, "price_btc": price, "file_path": path}
NewItemRecord(ud) ==
    [name |-> ud["new_item_name"], price_btc |-> ud["new_item_price"],
     file_path |-> ud["new_item_path"]]

admin_item_add_category_selected(u, data) ==
    IF data = <<"admin", "cat", "add">>
    THEN admin_cat_add_start(u)
    ELSE LET cat == data[3]
             ud == user_data[u]
         IN
         /\ UNCHANGED user_data
         /\ IF Len(data) < 3
            THEN \* _, _, cat = data.split(":", 2) raises ValueError
                 /\ Raise(u, "ValueError")
                 /\ CatalogUnchanged
            ELSE IF ~NewItemComplete(ud)
            THEN /\ admin_show_items(u, "Missing data", TRUE)
                 /\ CatalogUnchanged
            ELSE /\ Room(CATEGORIES, cat)
                 /\ ITEMS' = DictSet(ITEMS, ud["new_item_key"], NewItemRecord(ud))
                 /\ CATEGORIES' = SetDefaultAppend(CATEGORIES, cat, ud["new_item_key"])
                 /\ SaveItemsThenCategories
                 /\ AfterSave(u, Files, admin_show_items(u, "Item added", TRUE))

admin_item_edit_start(u, data) ==
    /\ CatalogUnchanged
    /\ IF Len(data) < 4
       THEN /\ admin_show_items(u, "Malformed callback", TRUE)
            /\ UNCHANGED user_data
       ELSE LET item_key == data[4] IN
            IF item_key \notin DOMAIN ITEMS
            THEN /\ admin_show_items(u, "Item not found", TRUE)
                 /\ UNCHANGED user_data
            ELSE /\ SetUserData(u, "admin_edit_item_key", item_key)
                 /\ Return(u, "Editing item", ITEM_EDIT_SELECT)

admin_item_field_select(u, data) ==
    LET field == data[Len(data)] IN
    /\ CatalogUnchanged
    /\ SetUserData(u, "admin_edit_field", field)
    /\ IF field = "category"
       THEN Return(u, "Choose new category", ITEM_EDIT_FIELD_SELECT)
       ELSE Return(u, "Send new value", ITEM_EDIT_FIELD_SELECT)

\* ITEMS[item_key][field] = val ; save_json ; reply ; admin_show_items(update)
StoreField(u, item_key, field, val) ==
    IF item_key \notin DOMAIN ITEMS
    THEN \* KeyError at ITEMS[item_key]
         /\ Raise(u, "KeyError")
         /\ UNCHANGED <<ITEMS, items_file>>
    ELSE /\ ITEMS' = [ITEMS EXCEPT ![item_key] = DictSet(ITEMS[item_key], field, val)]
         /\ SaveItems
         /\ AfterSave(u, {ITEMS_FILE}, admin_show_items(u, "Updated field", FALSE))

admin_item_field_value_received(u, raw, exists) ==
    LET item_key == Get(user_data[u], "admin_edit_item_key")
        field == Get(user_data[u], "admin_edit_field")
        text == Strip(raw)
    IN
    /\ UNCHANGED <<CATEGORIES, categories_file, user_data>>
    /\ IF item_key = None \/ field = None
       THEN /\ admin_show_items(u, "No item/field selected", FALSE)
            /\ UNCHANGED <<ITEMS, items_file>>
       ELSE IF field = "price_btc"
       THEN IF ~PriceAccepted(text)
            THEN /\ Return(u, "Invalid price", ITEM_EDIT_FIELD_VALUE)
                 /\ UNCHANGED <<ITEMS, items_file>>
            ELSE StoreField(u, item_key, field, ParseFloat(text))
       ELSE IF field = "file_path"
       THEN IF ~exists
            THEN /\ Return(u, "Path does not exist", ITEM_EDIT_FIELD_VALUE)
                 /\ UNCHANGED <<ITEMS, items_file>>
            ELSE StoreField(u, item_key, field, text)
       ELSE StoreField(u, item_key, field, text)

admin_item_move_category(u, data) ==
    LET new_cat == data[Len(data)]
        item_key == Get(user_data[u], "admin_edit_item_key")
        removed == RemoveFromEvery(CATEGORIES, item_key)
    IN
    /\ Room(removed, new_cat)
    /\ UNCHANGED <<ITEMS, items_file, user_data>>
    /\ CATEGORIES' = SetDefaultAppend(removed, new_cat, item_key)
    /\ SaveCategories
    /\ AfterSave(u, {CATEGORIES_FILE}, admin_show_items(u, "Moved item", TRUE))

admin_item_delete_confirm(u, data) ==
    LET item_key == IF Len(data) >= 4 THEN data[4] ELSE None IN
    /\ CatalogUnchanged
    /\ IF item_key = None \/ item_key = "" \/ item_key \notin DOMAIN ITEMS
       THEN /\ admin_show_items(u, "Item not found", TRUE)
            /\ UNCHANGED user_data
       ELSE /\ SetUserData(u, "admin_delete_item_key", item_key)
            /\ Return(u, "Confirm delete item", ITEM_DELETE_CONFIRM)

admin_item_delete_execute(u) ==
    LET item_key == Get(user_data[u], "admin_delete_item_key") IN
    /\ UNCHANGED user_data
    /\ IF item_key = None \/ item_key \notin DOMAIN ITEMS
       THEN /\ admin_show_items(u, "Item not found", TRUE)
            /\ CatalogUnchanged
       ELSE /\ ITEMS' = DictPop(ITEMS, item_key)
            /\ CATEGORIES' = RemoveFromEvery(CATEGORIES, item_key)
            /\ SaveItemsThenCategories
            /\ AfterSave(u, Files, admin_show_items(u, "Item deleted", TRUE))

(* ---------------------------------------------------------------------- *)
(* Dispatch of admin callbacks and the /cancel fallback (lines 627-698)   *)
(* ---------------------------------------------------------------------- *)

generic_admin_callback_dispatch(u, data) ==
    IF data = <<"admin", "cat", "add">> THEN admin_cat_add_start(u)
    ELSE IF StartsWith(data, <<"admin", "cat", "edit">>) THEN admin_cat_edit_start(u, data)
    ELSE IF StartsWith(data, <<"admin", "cat", "del">>) THEN admin_cat_delete_confirm(u, data)
    ELSE IF data = <<"admin", "cat", "confirm_del">> THEN admin_cat_delete_execute(u)
    ELSE IF data = <<"admin", "cat", "back">> THEN show_categories(u)
    ELSE IF data = <<"admin", "item", "add">> THEN admin_item_add_start(u)
    ELSE IF StartsWith(data, <<"admin", "item", "edit">>) THEN admin_item_edit_start(u, data)
    ELSE IF StartsWith(data, <<"admin", "item", "del">>) THEN admin_item_delete_confirm(u, data)
    ELSE IF data = <<"admin", "item", "confirm_del">> THEN admin_item_delete_execute(u)
    ELSE IF StartsWith(data, <<"admin", "item", "field">>) THEN admin_item_field_select(u, data)
    ELSE IF StartsWith(data, <<"admin", "item", "move">>) THEN admin_item_move_category(u, data)
    ELSE IF data = <<"admin", "categories">> \/ data = <<"admin", "open">> THEN show_categories(u)
    ELSE IF data = <<"admin", "items">> THEN show_items(u)
    ELSE admin_panel_start(u)

\* fallbacks=[CommandHandler("cancel", lambda u, c: u.message.reply_text("Cancelled."))]
\* A fallback is tried only while a conversation is open; the lambda returns
\* the sent Message, which ConversationHandler stores as the new state.
cancel(u) ==
    /\ state[u] # NoConversation
    /\ Return(u, "Cancelled", MessageObject)
    /\ CatalogUnchanged
    /\ UNCHANGED user_data

(* ---------------------------------------------------------------------- *)
(* Payment handlers (lines 195-281)                                       *)
(* ---------------------------------------------------------------------- *)

\* One satoshi, in units of 1e-13 BTC: confirmed_sats / 1e8
Satoshi == 100000

\* The "tiny tolerance" 1e-12 of line 263, in units of 1e-13 BTC
Tolerance == 10

\* Confirmed satoshis the gateway may report for an address
MaxSats == 2

\* What blockonomics_new_address can do: raise (no API key, network or HTTP
\* error), or return data.get("address"), which is None when the answer
\* has no address.
NewAddressOutcomes == {"raise", "addr1", None}

\* What blockonomics_check_balance returns when it does not raise: the
\* confirmed balance int(confirmed) / 1e8 (0.0 when the answer has no data).
blockonomics_check_balance(confirmed_sats) == confirmed_sats * Satoshi

\* What delivering the file can do, once the payment is accepted and the
\* item exists: the file is missing, the upload raises, or it is sent.
DeliveryOutcomes == {"missing", "send_fails", "sent"}

PaymentSufficient_NoTolerance(received, amount) == FloatGe(received, amount)

\* The payment test of line 263
PaymentSufficient(received, amount) == FloatGe(received, FloatSub(amount, Tolerance))

NewAddressRaised_Swallowed(gateway) == FALSE

AfterDelivery_Always(ud, sent) == DictPop(ud, "pending_payment")

\* try: addr = blockonomics_new_address() / except Exception (lines 231-235)
NewAddressRaised(gateway) == gateway = "raise"

\* The user_data of a session after a delivery attempt: del
\* context.user_data['pending_payment'] runs only after reply_document
\* returned (lines 273-279).
AfterDelivery(ud, sent) == IF sent THEN DictPop(ud, "pending_payment") ELSE ud

\* The amount due taken from the item's price at the time of /confirm.
AmountDue_CurrentPrice(pending) ==
    IF pending["item_key"] \in DOMAIN ITEMS
    THEN ITEMS[pending["item_key"]]["price_btc"]
    ELSE pending["amount"]

\* pending['amount'] (lines 263 and 281): the amount /confirm compares the
\* balance with and states in its reply is the one stored in the intent.
AmountDue(pending) == pending["amount"]

handle_buy_request(u, item_key, gateway) ==
    /\ CatalogUnchanged
    /\ UNCHANGED <<state, writable, pc, current>>
    /\ IF item_key \notin DOMAIN ITEMS
       THEN /\ out' = Out("Item not found", FALSE)
            /\ UNCHANGED user_data
       ELSE IF NewAddressRaised(gateway)
       THEN /\ out' = Out("Failed to create payment address", FALSE)
            /\ UNCHANGED user_data
       ELSE /\ SetUserData(u, "pending_payment",
                           [item_key |-> item_key, address |-> gateway,
                            amount |-> ITEMS[item_key]["price_btc"]])
            /\ out' = Out("Send BTC to address", FALSE)

cmd_confirm(u, gateway_ok, confirmed_sats, delivery) ==
    /\ CatalogUnchanged
    /\ UNCHANGED <<state, writable, pc, current>>
    /\ IF "pending_payment" \notin DOMAIN user_data[u]
       THEN /\ out' = Out("You have no pending payment", FALSE)
            /\ UNCHANGED user_data
       ELSE LET pending == user_data[u]["pending_payment"]
                received == blockonomics_check_balance(confirmed_sats)
            IN
            IF ~gateway_ok
            THEN /\ out' = Out("Payment check failed", FALSE)
                 /\ UNCHANGED user_data
            ELSE IF ~PaymentSufficient(received, AmountDue(pending))
            THEN \* the reply states both amounts (line 281)
                 /\ out' = [msg |-> "Payment not detected/confirmed", raised |-> FALSE,
                            received |-> received, amount |-> AmountDue(pending)]
                 /\ UNCHANGED user_data
            ELSE IF pending["item_key"] \notin DOMAIN ITEMS
            THEN /\ out' = Out("Item not found. Contact admin", FALSE)
                 /\ UNCHANGED user_data
            ELSE IF delivery = "missing"
            THEN /\ out' = Out("File missing on server", FALSE)
                 /\ UNCHANGED user_data
            ELSE /\ out' = Out(IF delivery = "sent" THEN "Here is your file"
                                                     ELSE "Failed to send file", FALSE)
                 /\ user_data' = [user_data EXCEPT
                                     ![u] = AfterDelivery(user_data[u], delivery = "sent")]

(* ---------------------------------------------------------------------- *)
(* The store's callback router and the handlers the Application registers *)
(* (lines 109-111, 137-192, 300-316, 665-715)                             *)
(* ---------------------------------------------------------------------- *)

is_admin_user(u) == u = ADMIN_USER_ID

\* ":".join(tokens): the string that split(":", n) leaves in its last part
RECURSIVE Join(_)
Join(tokens) ==
    IF Len(tokens) = 1 THEN tokens[1] ELSE tokens[1] \o ":" \o Join(Tail(tokens))

\* The handler replied msg and returned None.
ReturnNone(msg) ==
    /\ out' = Out(msg, FALSE)
    /\ UNCHANGED <<state, writable, pc, current>>

cmd_start(u) ==
    /\ ReturnNone("Welcome")
    /\ CatalogUnchanged
    /\ UNCHANGED user_data

admin_callback_router(u, data) ==
    \* _, action, *rest = callback_data.split(":")
    LET action == data[2] IN
    IF action = "categories" THEN show_categories(u)
    ELSE IF action = "items" THEN show_items(u)
    ELSE admin_panel_start(u)

callback_router(u, data, gateway) ==
    IF data = <<"nav", "categories">>
    THEN /\ ReturnNone("Choose a category")
         /\ CatalogUnchanged
         /\ UNCHANGED user_data
    ELSE IF data = <<"admin", "open">>
    THEN IF ~is_admin_user(u)
         THEN /\ ReturnNone("Not authorized")
              /\ CatalogUnchanged
              /\ UNCHANGED user_data
         ELSE admin_panel_start(u)
    ELSE IF StartsWith(data, <<"cat">>)
    THEN \* _, cat_key = data.split(":", 1)
         LET cat_key == Join(Tail(data)) IN
         /\ ReturnNone(IF cat_key \notin DOMAIN CATEGORIES THEN "Category not found"
                                                           ELSE "Items in category")
         /\ CatalogUnchanged
         /\ UNCHANGED user_data
    ELSE IF StartsWith(data, <<"item">>)
    THEN /\ CatalogUnchanged
         /\ UNCHANGED user_data
         /\ IF Len(data) < 3
            THEN \* _, cat_key, item_key = data.split(":", 2) raises ValueError
                 Raise(u, "ValueError")
            ELSE LET item_key == Join(SubSeq(data, 3, Len(data))) IN
                 ReturnNone(IF item_key \notin DOMAIN ITEMS THEN "Item not found"
                                                           ELSE "Item and price")
    ELSE IF StartsWith(data, <<"buy">>)
    THEN IF Len(data) < 3
         THEN /\ Raise(u, "ValueError")
              /\ CatalogUnchanged
              /\ UNCHANGED user_data
         ELSE handle_buy_request(u, Join(SubSeq(data, 3, Len(data))), gateway)
    ELSE IF StartsWith(data, <<"admin">>)
    THEN admin_callback_router(u, data)
    ELSE /\ ReturnNone("Unknown action")
         /\ CatalogUnchanged
         /\ UNCHANGED user_data

\* The no-op handler of every text message that is no command.
admin_text_handler(u) ==
    /\ ReturnNone(None)
    /\ CatalogUnchanged
    /\ UNCHANGED user_data

\* The entry point of the ConversationHandler, the /admin command (line 683):
\* for another user the lambda returns the Message that reply_text sent.
admin_entry_point(u) ==
    IF is_admin_user(u)
    THEN admin_panel_start(u)
    ELSE /\ Return(u, "Not authorized", MessageObject)
         /\ CatalogUnchanged
         /\ UNCHANGED user_data

\* What disk failure does to a file of the catalog, and its repair.
DiskFails(path) ==
    /\ path \in writable
    /\ writable' = writable \ {path}
    /\ UNCHANGED <<ITEMS, CATEGORIES, user_data, state, items_file, categories_file, out, pc,
                   current>>

DiskRecovers(path) ==
    /\ path \notin writable
    /\ writable' = writable \cup {path}
    /\ UNCHANGED <<ITEMS, CATEGORIES, user_data, state, items_file, categories_file, out, pc,
                   current>>

(* ---------------------------------------------------------------------- *)
(* admin_item_delete_execute and admin_item_add_category_selected as      *)
(* tasks of the event loop, statement by statement (lines 487-508,        *)
(* 609-624, 426-438).  A task runs until it reaches an await; only then   *)
(* can another task, or a whole handler, run.                             *)
(* ---------------------------------------------------------------------- *)

AwaitPoints_SaveAwaits ==
    {"del_answer", "del_reply", "add_answer", "add_reply", "show_answer", "show_edit",
     "del_items_saved", "add_items_saved"}

\* The positions at which a task is suspended: the awaits of query.answer()
\* and query.edit_message_text(...).  save_json is an ordinary call.
AwaitPoints == {"del_answer", "del_reply", "add_answer", "add_reply", "show_answer", "show_edit"}

\* The positions between the first in-memory change of a handler and the
\* end of its last write.
MidMutation ==
    {"del_popped", "del_stripped", "del_items_saved", "add_item_set", "add_appended",
     "add_items_saved"}

\* The thread is free for the task of user u: no task holds it, or u's does.
Runs(u) == current \in {None, u}

\* The task of u moves to position pos; it gives up the thread when pos is
\* an await or the end of the handler.
Goto(u, pos) ==
    /\ pc' = [pc EXCEPT ![u] = At(pos, pc[u].cat)]
    /\ current' = IF pos \in AwaitPoints \cup {TaskIdle} THEN None ELSE u

\* The Application starts the handler for a callback query of u; the handler
\* runs up to its first await, query.answer().
TaskStart(u, pos, cat) ==
    /\ pc[u].at = TaskIdle
    /\ current = None
    /\ pc' = [pc EXCEPT ![u] = At(pos, cat)]
    /\ UNCHANGED <<ITEMS, CATEGORIES, user_data, state, items_file, categories_file, out,
                   writable, current>>

\* save_json raised in a task: the handler ends there.
TaskRaise(u) ==
    /\ out' = Out("OSError", TRUE)
    /\ Goto(u, TaskIdle)

DeleteTaskStart(u) == TaskStart(u, "del_answer", None)

\* lines 612-617: the test of the remembered key, and ITEMS.pop
DeleteTaskPop(u) ==
    LET item_key == Get(user_data[u], "admin_delete_item_key") IN
    /\ pc[u].at = "del_answer"
    /\ Runs(u)
    /\ UNCHANGED <<CATEGORIES, user_data, state, items_file, categories_file, writable>>
    /\ IF item_key = None \/ item_key \notin DOMAIN ITEMS
       THEN /\ out' = Out("Item not found", FALSE)
            /\ Goto(u, "del_reply")
            /\ UNCHANGED ITEMS
       ELSE /\ ITEMS' = DictPop(ITEMS, item_key)
            /\ Goto(u, "del_popped")
            /\ UNCHANGED out

\* lines 618-620: the key is removed from the lists
DeleteTaskStrip(u) ==
    /\ pc[u].at = "del_popped"
    /\ Runs(u)
    /\ CATEGORIES' = RemoveFromEvery(CATEGORIES, Get(user_data[u], "admin_delete_item_key"))
    /\ Goto(u, "del_stripped")
    /\ UNCHANGED <<ITEMS, user_data, state, items_file, categories_file, out, writable>>

\* save_json(ITEMS_FILE, ITEMS) as a statement of a task at position pos
TaskSaveItems(u, pos, next) ==
    /\ pc[u].at = pos
    /\ Runs(u)
    /\ UNCHANGED <<ITEMS, CATEGORIES, user_data, state, categories_file, writable>>
    /\ IF CanWrite(ITEMS_FILE)
       THEN /\ items_file' = ITEMS
            /\ Goto(u, next)
            /\ UNCHANGED out
       ELSE /\ TaskRaise(u)
            /\ UNCHANGED items_file

\* save_json(CATEGORIES_FILE, CATEGORIES) as a statement of a task, followed
\* by the await of the reply msg
TaskSaveCategories(u, pos, next, msg) ==
    /\ pc[u].at = pos
    /\ Runs(u)
    /\ UNCHANGED <<ITEMS, CATEGORIES, user_data, state, items_file, writable>>
    /\ IF CanWrite(CATEGORIES_FILE)
       THEN /\ categories_file' = CATEGORIES
            /\ out' = Out(msg, FALSE)
            /\ Goto(u, next)
       ELSE /\ TaskRaise(u)
            /\ UNCHANGED categories_file

DeleteTaskSaveItems(u) == TaskSaveItems(u, "del_stripped", "del_items_saved")

DeleteTaskSaveCategories(u) ==
    TaskSaveCategories(u, "del_items_saved", "del_reply", "Item deleted")

AddTaskStart(u) == \E c \in CatTokens : TaskStart(u, "add_answer", c)

\* lines 494-503: the buffers are read and tested, and ITEMS[key] is set
AddTaskSetItem(u) ==
    LET ud == user_data[u] IN
    /\ pc[u].at = "add_answer"
    /\ Runs(u)
    /\ UNCHANGED <<CATEGORIES, user_data, state, items_file, categories_file, writable>>
    /\ IF ~NewItemComplete(ud)
       THEN /\ out' = Out("Missing data", FALSE)
            /\ Goto(u, "add_reply")
            /\ UNCHANGED ITEMS
       ELSE /\ ITEMS' = DictSet(ITEMS, ud["new_item_key"], NewItemRecord(ud))
            /\ Goto(u, "add_item_set")
            /\ UNCHANGED out

\* line 504: CATEGORIES.setdefault(cat, []).append(key)
AddTaskAppend(u) ==
    /\ pc[u].at = "add_item_set"
    /\ Runs(u)
    /\ Room(CATEGORIES, pc[u].cat)
    /\ CATEGORIES' = SetDefaultAppend(CATEGORIES, pc[u].cat, user_data[u]["new_item_key"])
    /\ Goto(u, "add_appended")
    /\ UNCHANGED <<ITEMS, user_data, state, items_file, categories_file, out, writable>>

AddTaskSaveItems(u) == TaskSaveItems(u, "add_appended", "add_items_saved")

AddTaskSaveCategories(u) ==
    TaskSaveCategories(u, "add_items_saved", "add_reply", "Item added")

\* After its reply the handler calls admin_show_items, which awaits
\* query.answer().
TaskShowItems(u) ==
    /\ pc[u].at \in {"del_reply", "add_reply"}
    /\ Runs(u)
    /\ Goto(u, "show_answer")
    /\ UNCHANGED <<ITEMS, CATEGORIES, user_data, state, items_file, categories_file, out,
                   writable>>

\* lines 429-437: the menu is built from the keys ITEMS has at that moment,
\* and sent
TaskBuildMenu(u) ==
    /\ pc[u].at = "show_answer"
    /\ Runs(u)
    /\ out' = [msg |-> "Manage Items", raised |-> FALSE, keys |-> DOMAIN ITEMS]
    /\ Goto(u, "show_edit")
    /\ UNCHANGED <<ITEMS, CATEGORIES, user_data, state, items_file, categories_file, writable>>

\* line 438: return ITEM_MENU
TaskReturn(u) ==
    /\ pc[u].at = "show_edit"
    /\ Runs(u)
    /\ state' = [state EXCEPT ![u] = ITEM_MENU]
    /\ pc' = [pc EXCEPT ![u] = At(TaskIdle, None)]
    /\ current' = None
    /\ UNCHANGED <<ITEMS, CATEGORIES, user_data, items_file, categories_file, out, writable>>

(* ---------------------------------------------------------------------- *)
(* Specifications                                                         *)
(* ---------------------------------------------------------------------- *)

\* Data of the buttons of the category-choice menu (lines 482-483), and a
\* two-token selection from an older menu.
AssignData ==
    {<<"admin", "cat", "add">>, <<"admin", "items">>}
    \cup {<<"admin", "assign_cat", c>> : c \in CatTokens}

\* The callback data of each dialogue's buttons.
CategoryData ==
    {d \in AdminCallbackData : d[2] \in {"cat", "categories", "open"}}

ItemEditData ==
    {d \in AdminCallbackData : d[2] = "item" /\ d[3] \in {"edit", "field", "move"}}

ItemDeleteData ==
    {d \in AdminCallbackData : d[2] = "item" /\ d[3] \in {"del", "confirm_del"}}

ItemAddData == {<<"admin", "item", "add">>, <<"admin", "items">>}

CategoryCallback(u) == \E data \in CategoryData : generic_admin_callback_dispatch(u, data)

ItemEditCallback(u) == \E data \in ItemEditData : generic_admin_callback_dispatch(u, data)

ItemDeleteCallback(u) == \E data \in ItemDeleteData : generic_admin_callback_dispatch(u, data)

ItemAddCallback(u) == \E data \in ItemAddData : generic_admin_callback_dispatch(u, data)

CategoryChoice(u) == \E data \in AssignData : admin_item_add_category_selected(u, data)

CatAddText(u) == \E raw \in CatKeyTexts : admin_cat_add_receive(u, raw)

CatEditText(u) == \E raw \in CatKeyTexts : admin_cat_edit_receive(u, raw)

ItemKeyText(u) == \E raw \in ItemKeyTexts : admin_item_add_key_received(u, raw)

ItemNameText(u) == \E raw \in NameTexts : admin_item_add_name_received(u, raw)

ItemPriceText(u) == \E raw \in PriceTexts : admin_item_add_price_received(u, raw)

ItemPathText(u) ==
    \E raw \in PathTexts, exists \in BOOLEAN : admin_item_add_path_received(u, raw, exists)

\* The administrator answers with a text of the kind the chosen field takes.
FieldValueTexts(u) ==
    LET field == Get(user_data[u], "admin_edit_field") IN
    IF field = "price_btc" THEN PriceTexts
    ELSE IF field = "file_path" THEN PathTexts
    ELSE NameTexts

FieldValueText(u) ==
    \E raw \in FieldValueTexts(u), exists \in BOOLEAN :
        admin_item_field_value_received(u, raw, exists)

Cancel(u) == cancel(u)

BuyRequest(u) ==
    \E item_key \in ItemTokens, gateway \in NewAddressOutcomes :
        handle_buy_request(u, item_key, gateway)

Confirm(u) ==
    \E gateway_ok \in BOOLEAN, confirmed_sats \in 0..MaxSats, delivery \in DeliveryOutcomes :
        cmd_confirm(u, gateway_ok, confirmed_sats, delivery)

(* The handlers of the whole program, invoked in any order, have more     *)
(* states than can be enumerated; each specification below takes the      *)
(* handlers of some dialogues, each invoked with any input in any order.  *)

\* The category dialogues of the administrator, with the selection and move
\* of an item, which reorder the category lists.
NextCategory ==
    \/ CategoryCallback(ADMIN_USER_ID)
    \/ CatAddText(ADMIN_USER_ID)
    \/ CatEditText(ADMIN_USER_ID)
    \/ ItemEditCallback(ADMIN_USER_ID)
    \/ Cancel(ADMIN_USER_ID)

SpecCategory == Init /\ [][NextCategory]_vars

\* The category dialogues, driven by a user who is not the administrator.
NextOther ==
    \/ CategoryCallback(OtherUser)
    \/ CatAddText(OtherUser)
    \/ CatEditText(OtherUser)

SpecOther == Init /\ [][NextOther]_vars

\* The item-creation and item-deletion dialogues of the administrator.
NextAdd ==
    \/ ItemAddCallback(ADMIN_USER_ID)
    \/ ItemKeyText(ADMIN_USER_ID)
    \/ ItemNameText(ADMIN_USER_ID)
    \/ ItemPriceText(ADMIN_USER_ID)
    \/ ItemPathText(ADMIN_USER_ID)
    \/ CategoryChoice(ADMIN_USER_ID)
    \/ ItemDeleteCallback(ADMIN_USER_ID)

SpecAdd == Init /\ [][NextAdd]_vars

\* The item-creation dialogue of the administrator alone.
NextCreate ==
    \/ ItemAddCallback(ADMIN_USER_ID)
    \/ ItemKeyText(ADMIN_USER_ID)
    \/ ItemNameText(ADMIN_USER_ID)
    \/ ItemPriceText(ADMIN_USER_ID)
    \/ ItemPathText(ADMIN_USER_ID)
    \/ CategoryChoice(ADMIN_USER_ID)

SpecCreate == Init /\ [][NextCreate]_vars

\* The item-edit, move and delete dialogues of the administrator.
NextEdit ==
    \/ ItemEditCallback(ADMIN_USER_ID)
    \/ FieldValueText(ADMIN_USER_ID)
    \/ ItemDeleteCallback(ADMIN_USER_ID)

SpecEdit == Init /\ [][NextEdit]_vars

\* The selections that lead to a price edit.
PriceEditData ==
    {d \in ItemEditData : d[3] = "edit" \/ d = <<"admin", "item", "field", "price_btc">>}

PriceEditCallback(u) == \E data \in PriceEditData : generic_admin_callback_dispatch(u, data)

\* Purchases by either user, while the administrator edits prices and deletes
\* items.
NextPay ==
    \/ \E u \in Users : BuyRequest(u)
    \/ \E u \in Users : Confirm(u)
    \/ PriceEditCallback(ADMIN_USER_ID)
    \/ FieldValueText(ADMIN_USER_ID)
    \/ ItemDeleteCallback(ADMIN_USER_ID)

SpecPay == Init /\ [][NextPay]_vars

\* Callback data as the store's menus send it (lines 113-135), with the
\* admin selections, and data with too few or too many tokens.
RouterData ==
    {<<"nav", "categories">>, <<"nav">>, <<"cat", "c1">>, <<"cat", "c2">>, <<"cat">>,
     <<"cat", "c1", "k1">>, <<"item", "c1", "k1">>, <<"item", "c1", "k2">>, <<"item", "k1">>,
     <<"item", "c1", "k1", "x">>, <<"buy", "c1", "k1">>, <<"buy", "c1", "k2">>,
     <<"buy", "k1">>, <<"buy", "c1", "k1", "x">>, <<"admin">>}
    \cup AdminCallbackData

\* The updates the Application receives.  Its handlers are all in one group,
\* and an update goes to the first registered handler that accepts it
\* (build_application): every callback query to callback_router, every text
\* that is no command to admin_text_handler, the commands /start and
\* /confirm to their handlers, /admin and /cancel to the ConversationHandler.
CallbackQueryUpdate(u) ==
    \E data \in RouterData, gateway \in NewAddressOutcomes : callback_router(u, data, gateway)

TextUpdate(u) == admin_text_handler(u)

StartCommand(u) == cmd_start(u)

AdminCommand(u) == admin_entry_point(u)

NextApp ==
    \/ \E u \in Users : CallbackQueryUpdate(u)
    \/ \E u \in Users : TextUpdate(u)
    \/ \E u \in Users : StartCommand(u)
    \/ \E u \in Users : Confirm(u)
    \/ \E u \in Users : AdminCommand(u)
    \/ \E u \in Users : Cancel(u)

SpecApp == Init /\ [][NextApp]_vars

\* The category and item-delete dialogues of the administrator on a disk
\* that can fail.
NextDisk ==
    \/ CategoryCallback(ADMIN_USER_ID)
    \/ CatAddText(ADMIN_USER_ID)
    \/ ItemDeleteCallback(ADMIN_USER_ID)
    \/ \E path \in Files : DiskFails(path)
    \/ \E path \in Files : DiskRecovers(path)

SpecDisk == Init /\ [][NextDisk]_vars

\* The selections that remember an item for deletion.
ItemDeleteSelect(u) ==
    \E k \in ItemTokens : admin_item_delete_confirm(u, <<"admin", "item", "del", k>>)

\* A whole handler runs only while no task holds the thread.
LoopFree == current = None

\* Two sessions as interleaved tasks: the administrator creates an item (the
\* dialogue fills the buffers, the commit runs as a task) while the other
\* session deletes one.
NextTasks ==
    \/ LoopFree /\ ItemDeleteSelect(OtherUser)
    \/ LoopFree /\ admin_item_add_key_received(ADMIN_USER_ID, "k2")
    \/ LoopFree /\ admin_item_add_name_received(ADMIN_USER_ID, "Guide")
    \/ LoopFree /\ admin_item_add_price_received(ADMIN_USER_ID, "0.00000002")
    \/ LoopFree /\ admin_item_add_path_received(ADMIN_USER_ID, " items/b.pdf", TRUE)
    \/ DeleteTaskStart(OtherUser)
    \/ DeleteTaskPop(OtherUser)
    \/ DeleteTaskStrip(OtherUser)
    \/ DeleteTaskSaveItems(OtherUser)
    \/ DeleteTaskSaveCategories(OtherUser)
    \/ AddTaskStart(ADMIN_USER_ID)
    \/ AddTaskSetItem(ADMIN_USER_ID)
    \/ AddTaskAppend(ADMIN_USER_ID)
    \/ AddTaskSaveItems(ADMIN_USER_ID)
    \/ AddTaskSaveCategories(ADMIN_USER_ID)
    \/ \E u \in Users : TaskShowItems(u)
    \/ \E u \in Users : TaskBuildMenu(u)
    \/ \E u \in Users : TaskReturn(u)

SpecTasks == Init /\ [][NextTasks]_vars

\* The administrator creates the item k2, committing the same buffers any
\* number of times, and edits and moves items.
NextMove ==
    \/ admin_item_add_key_received(ADMIN_USER_ID, "k2")
    \/ admin_item_add_name_received(ADMIN_USER_ID, "Guide")
    \/ admin_item_add_price_received(ADMIN_USER_ID, "0.00000002")
    \/ admin_item_add_path_received(ADMIN_USER_ID, " items/b.pdf", TRUE)
    \/ CategoryChoice(ADMIN_USER_ID)
    \/ ItemEditCallback(ADMIN_USER_ID)

SpecMove == Init /\ [][NextMove]_vars

\* Purchases of the other session while the administrator edits the price
\* of an item, deletes it, and creates an item of the same key with another
\* price.
NextIntent ==
    \/ BuyRequest(OtherUser)
    \/ Confirm(OtherUser)
    \/ PriceEditCallback(ADMIN_USER_ID)
    \/ admin_item_field_value_received(ADMIN_USER_ID, "0.0000000100002", TRUE)
    \/ ItemDeleteCallback(ADMIN_USER_ID)
    \/ admin_item_add_key_received(ADMIN_USER_ID, "k1")
    \/ admin_item_add_name_received(ADMIN_USER_ID, "Manual")
    \/ admin_item_add_price_received(ADMIN_USER_ID, "0.0000000100002")
    \/ admin_item_add_path_received(ADMIN_USER_ID, " items/b.pdf", TRUE)
    \/ CategoryChoice(ADMIN_USER_ID)

SpecIntent == Init /\ [][NextIntent]_vars

(* ---------------------------------------------------------------------- *)
(* Properties                                                             *)
(* ---------------------------------------------------------------------- *)

\* The keys listed in the categories
Referenced(cats) == UNION {{cats[c][i] : i \in 1..Len(cats[c])} : c \in DOMAIN cats}

\* key is listed in some category
Listed(cats, key) == \E c \in DOMAIN cats : InList(key, cats[c])

\* C1: in every reachable state of the catalog, every item key listed in a
\* category of CATEGORIES is a key of ITEMS (checked under SpecEdit).
C1_ReferentialIntegrity == Referenced(CATEGORIES) \subseteq DOMAIN ITEMS

\* The buffers of the admin dialogues in user_data
EditBufferKeys ==
    {"admin_edit_category_key", "admin_delete_category_key", "new_item_key", "new_item_name",
     "new_item_price", "new_item_path", "admin_edit_item_key", "admin_edit_field",
     "admin_delete_item_key"}

\* A step of a category dialogue handler taken for user u
CategoryStep(u) == CategoryCallback(u) \/ CatAddText(u) \/ CatEditText(u)

\* C2: a step of a catalog-mutating entry point taken for a user who is not
\* the administrator leaves ITEMS and CATEGORIES unchanged (checked under
\* SpecOther, where every step is such a user's).  The reply is not constrained: no handler has an
\* Unauthorized reply, so a refused step would be recognised by its effect.
C2_NonAdminChangesNothing ==
    [][\A u \in Users \ {ADMIN_USER_ID} :
         CategoryStep(u) => UNCHANGED <<ITEMS, CATEGORIES>>]_vars

\* C3: cmd_confirm sends the file only when the gateway's confirmed balance
\* is at least the intent's amount minus the tolerance; a balance below that
\* is answered as insufficient and changes nothing; a balance at or within
\* the tolerance below the amount passes the payment test, and the file is
\* sent when the item exists and the delivery works (checked under SpecPay).
C3_ReleaseOnlyWhenPaid ==
    [][\A u \in Users, n \in 0..MaxSats, d \in DeliveryOutcomes, ok \in BOOLEAN :
         (cmd_confirm(u, ok, n, d) /\ "pending_payment" \in DOMAIN user_data[u]) =>
             LET pending == user_data[u]["pending_payment"]
                 received == n * Satoshi
                 enough == FloatGe(received, FloatSub(pending["amount"], Tolerance))
             IN
             /\ out'.msg = "Here is your file" => (ok /\ enough)
             /\ (ok /\ ~enough) =>
                    /\ out'.msg = "Payment not detected/confirmed"
                    /\ UNCHANGED user_data
             /\ (ok /\ enough) => out'.msg # "Payment not detected/confirmed"
             /\ (ok /\ enough /\ pending["item_key"] \in DOMAIN ITEMS /\ d = "sent") =>
                    out'.msg = "Here is your file"]_vars

\* C3 witness: half of the amount due was received, the answer is
\* insufficient and the intent is still pending.
C3_Witness ==
    /\ out.msg = "Payment not detected/confirmed"
    /\ out.received * 2 = out.amount
    /\ \E u \in Users : "pending_payment" \in DOMAIN user_data[u]

\* C4: cmd_confirm removes the session's pending intent exactly when it sent
\* the file; in every other outcome user_data is unchanged; and without a
\* pending intent it answers that there is none (checked under SpecPay).
C4_IntentClearedIffDelivered ==
    [][\A u \in Users, n \in 0..MaxSats, d \in DeliveryOutcomes, ok \in BOOLEAN :
         cmd_confirm(u, ok, n, d) =>
             /\ out'.msg = "Here is your file" <=>
                    /\ "pending_payment" \in DOMAIN user_data[u]
                    /\ "pending_payment" \notin DOMAIN user_data'[u]
             /\ out'.msg # "Here is your file" => UNCHANGED user_data
             /\ "pending_payment" \notin DOMAIN user_data[u] =>
                    out'.msg = "You have no pending payment"
             /\ \A v \in Users \ {u} : user_data'[v] = user_data[v]]_vars

\* C4 witness: the upload failed and the intent is still in the session.
C4_Witness ==
    /\ out.msg = "Failed to send file"
    /\ \E u \in Users : "pending_payment" \in DOMAIN user_data[u]

\* C5 as stated: after handle_buy_request fails at address creation the
\* session holds no pending intent, whatever it held before.
C5_Original ==
    [][\A u \in Users, k \in ItemTokens :
         (handle_buy_request(u, k, "raise") /\ k \in DOMAIN ITEMS) =>
             "pending_payment" \notin DOMAIN user_data'[u]]_vars

\* C5 as amended: when handle_buy_request fails at address creation, every
\* session is left as it was: no new intent is recorded, a session without
\* an intent still has none, and an earlier intent stays (checked under
\* SpecPay).
C5_FailedBuyLeavesSession ==
    [][\A u \in Users, k \in ItemTokens :
         (handle_buy_request(u, k, "raise") /\ k \in DOMAIN ITEMS) =>
             /\ out'.msg = "Failed to create payment address"
             /\ UNCHANGED <<user_data, ITEMS, CATEGORIES>>]_vars

\* C5 witness: address creation failed in a session that holds an earlier
\* intent.
C5_Witness ==
    /\ out.msg = "Failed to create payment address"
    /\ \E u \in Users : "pending_payment" \in DOMAIN user_data[u]

\* C6: after admin_item_delete_execute deleted an item key, the key is not
\* in ITEMS and occurs in no category's list (checked under SpecAdd).
C6_DeletedKeyGone ==
    [][\A u \in Users :
         (admin_item_delete_execute(u) /\ out'.msg = "Item deleted") =>
             LET item_key == Get(user_data[u], "admin_delete_item_key") IN
             /\ item_key \notin DOMAIN ITEMS'
             /\ ~Listed(CATEGORIES', item_key)]_vars

\* C7: admin_cat_delete_execute removes at most the selected category:
\* ITEMS is unchanged, and every other category keeps its list (checked
\* under SpecCategory).
C7_DeleteCategoryFrame ==
    [][\A u \in Users :
         admin_cat_delete_execute(u) =>
             LET key == Get(user_data[u], "admin_delete_category_key") IN
             /\ ITEMS' = ITEMS
             /\ DOMAIN CATEGORIES' = (DOMAIN CATEGORIES) \ {key}
             /\ \A c \in DOMAIN CATEGORIES' : CATEGORIES'[c] = CATEGORIES[c]]_vars

\* C7 witness: a category was deleted, another one is left, and item k1,
\* which no category lists any more, is still in ITEMS.
C7_Witness ==
    /\ out.msg = "Category deleted"
    /\ DOMAIN CATEGORIES # {}
    /\ "k1" \in DOMAIN ITEMS
    /\ ~Listed(CATEGORIES, "k1")

\* A step of the item-creation commit taken for user u
CommitStep(u) == \E data \in AssignData : admin_item_add_category_selected(u, data)

\* C8: a key that exists already is refused by admin_cat_add_receive and by
\* admin_item_add_key_received with the catalog unchanged, and the commit
\* admin_item_add_category_selected never replaces the record of a key that
\* is in ITEMS nor appends a key to a category that lists it (checked under
\* SpecAdd).
C8_NoDuplicateKey ==
    [][\A u \in Users :
         /\ \A raw \in CatKeyTexts :
                (admin_cat_add_receive(u, raw) /\ StripLower(raw) \in DOMAIN CATEGORIES) =>
                    /\ out'.msg = "Category already exists"
                    /\ UNCHANGED <<ITEMS, CATEGORIES>>
         /\ \A raw \in ItemKeyTexts :
                (admin_item_add_key_received(u, raw) /\ StripLower(raw) \in DOMAIN ITEMS) =>
                    /\ out'.msg = "Key exists"
                    /\ UNCHANGED <<ITEMS, CATEGORIES>>
         /\ CommitStep(u) =>
                LET key == Get(user_data[u], "new_item_key") IN
                /\ key \in DOMAIN ITEMS => ITEMS' = ITEMS
                /\ \A c \in DOMAIN CATEGORIES :
                       InList(key, CATEGORIES[c]) => CATEGORIES'[c] = CATEGORIES[c]]_vars

\* C9: admin_cat_edit_receive with the selected key old present and the new
\* key absent leaves new mapped to the list old had, old gone, ITEMS and
\* every other category unchanged; with old absent (at admin_cat_edit_start
\* or at admin_cat_edit_receive) or new present it reports that and changes
\* nothing (checked under SpecCategory).
C9_RenameCategory ==
    [][\A u \in Users :
         /\ \A raw \in CatKeyTexts :
                admin_cat_edit_receive(u, raw) =>
                    LET old == Get(user_data[u], "admin_edit_category_key")
                        new == StripLower(raw)
                    IN
                    IF old \notin DOMAIN CATEGORIES
                    THEN /\ out'.msg = "No category selected or it no longer exists"
                         /\ UNCHANGED <<ITEMS, CATEGORIES>>
                    ELSE IF new \in DOMAIN CATEGORIES
                    THEN /\ out'.msg = "That key already exists"
                         /\ UNCHANGED <<ITEMS, CATEGORIES>>
                    ELSE IsAlnum(new) =>
                         /\ out'.msg = "Category renamed"
                         /\ ITEMS' = ITEMS
                         /\ DOMAIN CATEGORIES' = ((DOMAIN CATEGORIES) \ {old}) \cup {new}
                         /\ CATEGORIES'[new] = CATEGORIES[old]
                         /\ \A c \in (DOMAIN CATEGORIES) \ {old} : CATEGORIES'[c] = CATEGORIES[c]
         /\ \A c \in CatTokens :
                (admin_cat_edit_start(u, <<"admin", "cat", "edit", c>>)
                    /\ c \notin DOMAIN CATEGORIES) =>
                    /\ out'.msg = "Category not found"
                    /\ UNCHANGED <<ITEMS, CATEGORIES, user_data>>]_vars

\* C9 witness: a category holding two different keys was renamed c1 -> c2.
C9_Witness ==
    /\ out.msg = "Category renamed"
    /\ "c1" \notin DOMAIN CATEGORIES
    /\ "c2" \in DOMAIN CATEGORIES
    /\ Len(CATEGORIES["c2"]) = 2
    /\ CATEGORIES["c2"][1] # CATEGORIES["c2"][2]

\* The states in which no dialogue is open: no conversation, or a menu.
IdleStates == {NoConversation, ADMIN_MENU, CATEGORY_MENU, ITEM_MENU}

\* C10: the cancel action puts the session in Idle, discards every edit
\* buffer of the session and leaves ITEMS and CATEGORIES unchanged (checked
\* under SpecCategory).
C10_CancelResets ==
    [][\A u \in Users :
         cancel(u) =>
             /\ state'[u] \in IdleStates
             /\ (DOMAIN user_data'[u]) \cap EditBufferKeys = {}
             /\ UNCHANGED <<ITEMS, CATEGORIES>>]_vars

\* The three fields of an item record
ItemFields == {"name", "price_btc", "file_path"}

\* C11: in the item-creation dialogue ITEMS and CATEGORIES (and their files)
\* change only in the category-choice step that answers "Item added" (or
\* whose write failed); there the record of the buffered key is the buffered
\* name, price and path together, and after every step every item record has
\* all three fields (checked under SpecCreate).
C11_CommitOnlyAtLastStep ==
    [][/\ \A k \in DOMAIN ITEMS' : ItemFields \subseteq DOMAIN ITEMS'[k]
       /\ \A u \in Users :
              (ItemKeyText(u) \/ ItemNameText(u) \/ ItemPriceText(u) \/ ItemPathText(u)) =>
                  UNCHANGED <<ITEMS, CATEGORIES, items_file, categories_file>>
       /\ (ITEMS' # ITEMS \/ CATEGORIES' # CATEGORIES) =>
              /\ out'.msg \in {"Item added", "OSError"}
              /\ \E u \in Users :
                     /\ CommitStep(u)
                     /\ NewItemComplete(user_data[u])
                     /\ LET ud == user_data[u] IN
                        ITEMS'[ud["new_item_key"]] =
                            [name |-> ud["new_item_name"], price_btc |-> ud["new_item_price"],
                             file_path |-> ud["new_item_path"]]]_vars

\* C11 witness: the dialogue added item k2 with the name, price and path
\* that were sent.
C11_Witness ==
    /\ out.msg = "Item added"
    /\ "k2" \in DOMAIN ITEMS
    /\ ITEMS["k2"] = [name |-> "Manual", price_btc |-> 100002, file_path |-> "items/b.pdf"]
    /\ Listed(CATEGORIES, "k2")

\* The replies that report InvalidKey, DuplicateKey, NotFound, InvalidPrice,
\* AssetMissing, GatewayUnavailable or NoPendingIntent
ErrorReplies ==
    {"Invalid key", "Category already exists", "Invalid key format", "That key already exists",
     "No category selected or it no longer exists", "Category not found", "No category selected",
     "Key exists", "Invalid price", "File does not exist", "Path does not exist",
     "Item not found", "No item/field selected", "Failed to create payment address",
     "Payment check failed", "You have no pending payment", "Item not found. Contact admin",
     "File missing on server"}

\* The session is at the same prompt: the same state, or idle before and
\* after (the menus are all the idle state of the dialogue).
SamePrompt(before, after) ==
    before = after \/ (before \in IdleStates /\ after \in IdleStates)

\* C12: when a handler answers with one of the error replies, the session
\* state after it is the state before it.  The selections are taken in any
\* state, as generic_admin_callback_dispatch takes them; a text is taken by
\* the handler of the state the session is in (checked under SpecEdit).
C12_ErrorKeepsState ==
    [][\A u \in Users :
         /\ \A data \in AdminCallbackData :
                (generic_admin_callback_dispatch(u, data) /\ out'.msg \in ErrorReplies) =>
                    SamePrompt(state[u], state'[u])
         /\ \A raw \in PriceTexts \cup PathTexts \cup NameTexts, exists \in BOOLEAN :
                (/\ state[u] = ITEM_EDIT_FIELD_VALUE
                 /\ admin_item_field_value_received(u, raw, exists)
                 /\ out'.msg \in ErrorReplies) =>
                    SamePrompt(state[u], state'[u])]_vars

\* C13: when a write of save_json fails in a handler that changed the
\* catalog, ITEMS and CATEGORIES after the handler equal their values before
\* it (checked under SpecDisk).
C13_RollbackOnWriteFailure ==
    [][(out'.msg = "OSError" /\ out'.raised) => UNCHANGED <<ITEMS, CATEGORIES>>]_vars

\* The token count of callback data does not fit its namespace: cat:<key>
\* and nav:<target> have two tokens, item:<cat>:<key> and buy:<cat>:<key>
\* three, admin:... two to four.
Malformed(data) ==
    CASE data[1] \in {"cat", "nav"} -> Len(data) # 2
      [] data[1] \in {"item", "buy"} -> Len(data) # 3
      [] data[1] = "admin" -> Len(data) < 2 \/ Len(data) > 4
      [] OTHER -> TRUE

MalformedData == {data \in RouterData : Malformed(data)}

\* C14: for callback data whose token count does not fit its namespace,
\* callback_router raises nothing, answers with an error reply (the generic
\* "Unknown action", or a not-found reply) and leaves ITEMS, CATEGORIES and
\* every session's user_data unchanged (checked under SpecApp).
C14_MalformedRejected ==
    [][\A u \in Users, data \in MalformedData, gateway \in NewAddressOutcomes :
         callback_router(u, data, gateway) =>
             /\ ~out'.raised
             /\ out'.msg \in {"Unknown action", "Category not found", "Item not found"}
             /\ UNCHANGED <<ITEMS, CATEGORIES, user_data>>]_vars

\* C15: admin_item_move_category answers not-found and changes nothing when
\* the selected item key is not a key of ITEMS (none selected, or deleted
\* since) or the target category is not a key of CATEGORIES (checked under
\* SpecEdit).
C15_MoveChecksItemAndCategory ==
    [][\A u \in Users, c \in CatTokens :
         LET item_key == Get(user_data[u], "admin_edit_item_key") IN
         (/\ admin_item_move_category(u, <<"admin", "item", "move", c>>)
          /\ (item_key \notin DOMAIN ITEMS \/ c \notin DOMAIN CATEGORIES)) =>
             /\ out'.msg \in {"Item not found", "Category not found"}
             /\ UNCHANGED <<ITEMS, CATEGORIES>>]_vars

\* C16: admin_item_field_value_received with a selected item key that is
\* not in ITEMS raises nothing, answers not-found and leaves ITEMS and
\* CATEGORIES unchanged (checked under SpecEdit).
C16_EditMissingItemReported ==
    [][\A u \in Users, raw \in PriceTexts \cup PathTexts \cup NameTexts, exists \in BOOLEAN :
         LET item_key == Get(user_data[u], "admin_edit_item_key")
             field == Get(user_data[u], "admin_edit_field")
         IN
         (/\ admin_item_field_value_received(u, raw, exists)
          /\ item_key # None
          /\ field # None
          /\ item_key \notin DOMAIN ITEMS) =>
             /\ ~out'.raised
             /\ out'.msg = "Item not found"
             /\ UNCHANGED <<ITEMS, CATEGORIES>>]_vars

\* A float is strictly greater than zero
Positive(x) == x # NaN /\ x > 0

\* C17: in every reachable state every item record has a price strictly
\* greater than zero (checked under SpecEdit).
C17_PricePositive == \A k \in DOMAIN ITEMS : Positive(ITEMS[k]["price_btc"])

\* C18: in every reachable state no category's list contains the same item
\* key more than once (checked under SpecAdd).
C18_NoDuplicateInCategory ==
    \A c \in DOMAIN CATEGORIES :
        \A i, j \in 1..Len(CATEGORIES[c]) : CATEGORIES[c][i] = CATEGORIES[c][j] => i = j

\* C19: the delete-confirmation selections remove a category or an item
\* only when the session is in the corresponding delete-confirm state: a
\* step of admin_cat_delete_execute that changes CATEGORIES starts in
\* CATEGORY_DELETE_CONFIRM, and a step of admin_item_delete_execute that
\* changes ITEMS starts in ITEM_DELETE_CONFIRM (checked under SpecCategory).
C19_DeleteOnlyWhenConfirming ==
    [][\A u \in Users :
         /\ (admin_cat_delete_execute(u) /\ CATEGORIES' # CATEGORIES) =>
                state[u] = CATEGORY_DELETE_CONFIRM
         /\ (admin_item_delete_execute(u) /\ ITEMS' # ITEMS) =>
                state[u] = ITEM_DELETE_CONFIRM]_vars

\* C20: for the administrator, the step the Application takes for an admin
\* menu selection is the step of the flow handler that matches the
\* selection (the one generic_admin_callback_dispatch names for it), and the
\* step it takes for a text sent in a text-awaiting state is the step of that
\* state's handler (checked under SpecApp).
C20_SelectionsReachTheirHandler ==
    [][/\ \A data \in AdminCallbackData \ {<<"admin", "open">>},
             gateway \in NewAddressOutcomes :
              callback_router(ADMIN_USER_ID, data, gateway) =>
                  generic_admin_callback_dispatch(ADMIN_USER_ID, data)
       /\ (TextUpdate(ADMIN_USER_ID) /\ state[ADMIN_USER_ID] = CATEGORY_ADD) =>
              CatAddText(ADMIN_USER_ID)]_vars

\* C21: after admin_item_field_select took the choice of the name, price or
\* file-path field, the session is in ITEM_EDIT_FIELD_VALUE, the state whose
\* handler is admin_item_field_value_received (checked under SpecEdit).
C21_FieldChoiceAwaitsValue ==
    [][\A u \in Users, field \in {"name", "price_btc", "file_path"} :
         admin_item_field_select(u, <<"admin", "item", "field", field>>) =>
             /\ Get(user_data'[u], "admin_edit_field") = field
             /\ state'[u] = ITEM_EDIT_FIELD_VALUE]_vars

\* The statements of the task of u between its first in-memory change and
\* the end of its last write.
MutationStep(u) ==
    \/ DeleteTaskStrip(u)
    \/ DeleteTaskSaveItems(u)
    \/ DeleteTaskSaveCategories(u)
    \/ AddTaskAppend(u)
    \/ AddTaskSaveItems(u)
    \/ AddTaskSaveCategories(u)

\* C22: when the handlers of several sessions interleave at their awaits,
\* a catalog mutation is a single step: while the task of one session is
\* between its first in-memory change and the end of its writes, the only
\* steps taken are that task's own, so that no other handler (a menu-building
\* read included) runs meanwhile, and no two tasks are inside a mutation at
\* once (checked under SpecTasks).
C22_MutationIsOneStep ==
    [][/\ \A u \in Users :
             pc[u].at \in MidMutation =>
                 /\ current = u
                 /\ MutationStep(u)
                 /\ \A v \in Users \ {u} : pc'[v] = pc[v] /\ state'[v] = state[v]
       /\ \A u, v \in Users :
             (u # v /\ pc'[u].at \in MidMutation) => pc'[v].at \notin MidMutation]_vars

\* One task is between its two writes while the handler of the other
\* session is suspended at an await.
C22_Witness ==
    /\ pc[ADMIN_USER_ID].at = "add_items_saved"
    /\ pc[OtherUser].at = "del_answer"
    /\ items_file # DEFAULT_ITEMS

\* C23: while every write succeeds, after each operation on the catalog the
\* persisted items table equals ITEMS and the persisted categories table
\* equals CATEGORIES; the files hold the start-up catalog at the beginning
\* (checked under SpecEdit: field edit, move and delete).
C23_FilesEqualMemory == items_file = ITEMS /\ categories_file = CATEGORIES

\* An item was edited and moved, and the last handler completed.
C23_Witness ==
    /\ ITEMS # DEFAULT_ITEMS
    /\ CATEGORIES # DEFAULT_CATEGORIES
    /\ DOMAIN ITEMS # {}
    /\ ~out.raised
    /\ C23_FilesEqualMemory

\* The selections that move the item being edited.
MoveData == {<<"admin", "item", "move", c>> : c \in CatTokens}

\* C24: after a move of an item key to a category, the key occurs exactly
\* once in that category's list, at its end, and in no other list, however
\* often it was listed before (checked under SpecMove).
C24_MoveLeavesOneOccurrence ==
    [][\A data \in MoveData :
          LET key == Get(user_data[ADMIN_USER_ID], "admin_edit_item_key")
              cat == data[4]
          IN (admin_item_move_category(ADMIN_USER_ID, data) /\ key # None) =>
                 /\ Count(key, CATEGORIES'[cat]) = 1
                 /\ CATEGORIES'[cat][Len(CATEGORIES'[cat])] = key
                 /\ \A c \in DOMAIN CATEGORIES' \ {cat} : ~InList(key, CATEGORIES'[c])]_vars

\* C25: neither the item-creation commit nor the move of an item adds a key
\* to CATEGORIES: the category it names was there when it was invoked (the
\* move is that of an item of ITEMS chosen for editing)
\* (checked under SpecMove).
C25_NoCategoryCreatedByItems ==
    [][((\E data \in AssignData : admin_item_add_category_selected(ADMIN_USER_ID, data))
        \/ (/\ Get(user_data[ADMIN_USER_ID], "admin_edit_item_key") \in DOMAIN ITEMS
            /\ \E data \in MoveData : admin_item_move_category(ADMIN_USER_ID, data)))
       => DOMAIN CATEGORIES' \subseteq DOMAIN CATEGORIES]_vars

\* C26: at every instant, between the two writes of a handler included, the
\* catalog in the files has referential integrity: every item key listed in
\* a category of categories.json is a key of items.json (checked under
\* SpecTasks).
C26_FilesReferentialIntegrity == Referenced(categories_file) \subseteq DOMAIN items_file

\* The session holds a pending intent
HasIntent(ud) == "pending_payment" \in DOMAIN ud

\* The pending intent of the session differs between ud and ud2
IntentChanged(ud, ud2) ==
    \/ HasIntent(ud) # HasIntent(ud2)
    \/ HasIntent(ud) /\ HasIntent(ud2) /\ ud["pending_payment"] # ud2["pending_payment"]

\* C27: a session's pending intent changes only when that session's
\* handle_buy_request creates it, with the price the item has then, or when
\* its cmd_confirm removes it after sending the file: no catalog mutation
\* (price edit, delete) changes it; and cmd_confirm compares the balance with
\* the amount stored in the intent and states that amount, whatever the
\* item's price is by then (checked under SpecIntent).
C27_IntentFixedAtCreation ==
    [][/\ \A u \in Users :
             IntentChanged(user_data[u], user_data'[u]) =>
                 \/ \E k \in DOMAIN ITEMS, g \in NewAddressOutcomes :
                        /\ handle_buy_request(u, k, g)
                        /\ HasIntent(user_data'[u])
                        /\ user_data'[u]["pending_payment"] =
                               [item_key |-> k, address |-> g, amount |-> ITEMS[k]["price_btc"]]
                 \/ /\ Confirm(u)
                    /\ ~HasIntent(user_data'[u])
                    /\ out'.msg = "Here is your file"
       /\ \A u \in Users, n \in 0..MaxSats, d \in DeliveryOutcomes :
             (HasIntent(user_data[u]) /\ cmd_confirm(u, TRUE, n, d)) =>
                 LET amount == user_data[u]["pending_payment"]["amount"] IN
                 IF PaymentSufficient(n * Satoshi, amount)
                 THEN out'.msg # "Payment not detected/confirmed"
                 ELSE /\ out'.msg = "Payment not detected/confirmed"
                      /\ out'.amount = amount]_vars

\* C27 witness: the price of the item was lowered after the intent was
\* created, and /confirm, given a balance that pays the new price, asked for
\* the amount of the intent.
C27_Witness ==
    \E u \in Users :
        /\ HasIntent(user_data[u])
        /\ out.msg = "Payment not detected/confirmed"
        /\ LET pending == user_data[u]["pending_payment"] IN
           /\ pending["item_key"] \in DOMAIN ITEMS
           /\ ITEMS[pending["item_key"]]["price_btc"] < pending["amount"]
           /\ out.amount = pending["amount"]
           /\ PaymentSufficient(out.received, ITEMS[pending["item_key"]]["price_btc"])

====
